---- MODULE Spec2Model ----
(***************************************************************************)
(* Checkout and vend orchestration of the wendor kiosk.                    *)
(*                                                                         *)
(* Backend (Express, one Node.js event loop): the cart controller keeps a  *)
(* global in-memory cart and reads/writes the stock file data.json; its    *)
(* async handlers suspend at every `await fs.readFile/writeFile`, and      *)
(* other handlers run while one is suspended.  The backend talks to the    *)
(* VMC mock server over one WebSocket (vmc.ts).                            *)
(***************************************************************************)
EXTENDS Integers, Sequences, FiniteSets, TLC

\* ---------------------------------------------------------------- bounds
NumProducts == 2        \* products in data.json: ids 1..NumProducts
MaxStock == 2           \* initial shelf_life_count of every product
MaxQty == 2             \* largest quantity a request asks for
MaxReq == 3             \* HTTP requests issued in one behaviour
MaxSock == 3            \* WebSocket objects of the backend alive at one time
MaxVendReq == 2         \* HTTP requests of the kiosk session of SpecVend
MaxMs == 1              \* the clock is observed up to this many ms after an instant
MaxWs == 2              \* WebSocket objects of the browser client alive at one time
MaxListeners == 2       \* callbacks the UI registers with the browser client

CACHE_TTL_MS == 60000   \* jsonData.ts: lifetime of the product cache, ms

\* A JSON number n of a quantity or of a stock count is held as n * Unit, so
\* that halves are values of the model: Unit is 1, 3 is 1.5.
Unit == 2

PIDs == 1..NumProducts

\* data.json: the products whose is_active is false (the last one)
Inactive == {NumProducts}
Req == 1..MaxReq
NoData == [p \in {} |-> 0]

VARIABLES
    file,             \* data.json: product_id -> shelf_life_count
    cart,             \* cart.items: Map in insertion order, <<[productId, quantity]>>
    pc,               \* per request: where its handler is suspended
    arg,              \* per request: req.body
    data,             \* per request: the parsed array `data` the handler holds
    resp,             \* per request: the response sent (res.json)
    deducted,         \* per request: the cart lines whose deduction it wrote (or is writing) to the file
    dirty,            \* requests that had a foreign cart/stock write after their stock read
    cartAtSubmit,     \* per request: cart.items as it was when sendToVMC was called
    sends,            \* per request: results of the sendToVMC calls made for its vend
    vmcClient,        \* vmc.ts vmcClient: index into socks, 0 for null
    socks,            \* every WebSocket the backend created, in creation order
    reconnectTimeout, \* vmc.ts reconnectTimeout: "null", "pending" or "fired" (stale handle)
    reconnectHandler, \* onMessage captured by the pending reconnect callback
    reconnectTimers,  \* vmc.ts: reconnect setTimeout callbacks outstanding
    retry,            \* requests whose 1 s retry setTimeout is pending
    wire,             \* vend commands sent and not yet received by the VMC server
    vendingState,     \* VMC server: [status, currentItems, startTime, timeout, statusInterval]
    timers,           \* VMC server: timers outstanding, and firings of the current interval
    vmcLog,           \* VMC server: the broadcasts of the latest cycle, in order
    vmcReply,         \* VMC server: its answer to the last vend request
    accepted,         \* requests whose vend command the VMC accepted
    busy,             \* requests whose vend command the VMC answered "busy"
    now,              \* Date.now(), in ms since the backend started
    cachedProducts,   \* jsonData.ts cachedProducts: the file as loaded, NoData for null
    lastLoaded,       \* jsonData.ts lastLoaded
    loadedAt,         \* per request: `now` as loadProducts captured it before its await
    ws,               \* VMCWebSocket.ws: index into wsocks, 0 for null
    wsocks,           \* every WebSocket the browser client created: its readyState
    wsReconnectTimeout, \* VMCWebSocket.reconnectTimeout: 0 for null, else the delay of the pending timer
    wsTimers,         \* VMCWebSocket: reconnect setTimeout callbacks outstanding
    reconnectAttempts, \* VMCWebSocket.reconnectAttempts
    listeners,        \* VMCWebSocket.listeners
    invoked,          \* the listeners called for the latest message (none since disconnect())
    stopped,          \* disconnect() was called and connect() has not been called since
    sinceOpen         \* connections the reconnect timer attempted since the last open (or start)

cartVars == <<file, cart, pc, arg, data, resp, deducted, dirty, cartAtSubmit, sends>>
linkVars == <<vmcClient, socks, reconnectTimeout, reconnectHandler, reconnectTimers,
              retry, wire>>
vmcVars == <<vendingState, timers, vmcLog, vmcReply, accepted, busy>>
cacheVars == <<now, cachedProducts, lastLoaded, loadedAt>>
frontVars == <<ws, wsocks, wsReconnectTimeout, wsTimers, reconnectAttempts, listeners,
               invoked, stopped, sinceOpen>>
vars == <<cartVars, linkVars, vmcVars, cacheVars, frontVars>>

\* ------------------------------------------------------- cart.items (Map)
Max(a, b) == IF a >= b THEN a ELSE b

CartHas(c, p) == \E i \in 1..Len(c) : c[i].productId = p

CartIndex(c, p) == CHOOSE i \in 1..Len(c) : c[i].productId = p

\* cart.items.get(productId) ?? 0
CartGet(c, p) == IF CartHas(c, p) THEN c[CartIndex(c, p)].quantity ELSE 0

\* a set that replaces the whole Map by the one entry
CartSetOnly(c, p, q) == <<[productId |-> p, quantity |-> q]>>

\* cart.items.set(productId, q): an existing key keeps its place
CartSet(c, p, q) ==
    IF CartHas(c, p)
    THEN [c EXCEPT ![CartIndex(c, p)].quantity = q]
    ELSE Append(c, [productId |-> p, quantity |-> q])

RECURSIVE Repeat(_, _)
Repeat(x, n) == IF n <= 0 THEN <<>> ELSE <<x>> \o Repeat(x, n - 1)

\* iterations of `for (let i = 0; i < qty; i++)`: the least integer >= qty
Iterations(qty) == IF qty <= 0 THEN 0 ELSE (qty + Unit - 1) \div Unit

\* for (const [productId, qty] of entries) for (i < qty) vendItems.push(productId)
RECURSIVE VendItems(_)
VendItems(entries) ==
    IF entries = <<>> THEN <<>>
    ELSE Repeat(Head(entries).productId, Iterations(Head(entries).quantity))
         \o VendItems(Tail(entries))

\* number of entries of product p in a dispense list
RECURSIVE Count(_, _)
Count(items, p) ==
    IF items = <<>> THEN 0
    ELSE (IF Head(items) = p THEN 1 ELSE 0) + Count(Tail(items), p)


\* ------------------------------------------------- vmc.ts (backend link)
NoSock == [state |-> "none", onMessage |-> FALSE]
Sock == 1..MaxSock

\* the link as sendToVMC/connectToVMC see it
Link == [vmcClient |-> vmcClient, socks |-> socks, wire |-> wire]

\* vmcClient?.readyState === WebSocket.OPEN
IsOpen(L) == L.vmcClient # 0 /\ L.socks[L.vmcClient].state = "open"

FreeSocks(L) == {s \in Sock : L.socks[s].state = "none"}

\* connectToVMC(onMessage): returns the open client, else creates a new WebSocket
\* (also when the current one is still CONNECTING) and points vmcClient at it
connectToVMC(L, onMessage) ==
    IF IsOpen(L) THEN L
    ELSE LET s == CHOOSE x \in FreeSocks(L) : \A y \in FreeSocks(L) : x <= y
         IN [L EXCEPT !.socks[s] = [state |-> "connecting", onMessage |-> onMessage],
                      !.vmcClient = s]

\* how many WebSocket objects connectToVMC would create
Creates(L) == IF IsOpen(L) THEN 0 ELSE 1

\* sendToVMC that reports delivery although the link is not open
sendToVMCAlwaysTrue(L, message) ==
    IF IsOpen(L)
    THEN [link |-> [L EXCEPT !.wire = Append(@, [sock |-> L.vmcClient,
                                                   req |-> message.req,
                                                   items |-> message.items])],
          sent |-> TRUE]
    ELSE [link |-> connectToVMC(L, FALSE), sent |-> TRUE]

\* sendToVMC that keeps the message for the connection it opens
sendToVMCQueues(L, message) ==
    IF IsOpen(L)
    THEN [link |-> [L EXCEPT !.wire = Append(@, [sock |-> L.vmcClient,
                                                   req |-> message.req,
                                                   items |-> message.items])],
          sent |-> TRUE]
    ELSE [link |-> [connectToVMC(L, FALSE)
                       EXCEPT !.wire = Append(@, [sock |-> connectToVMC(L, FALSE).vmcClient,
                                                   req |-> message.req,
                                                   items |-> message.items])],
          sent |-> FALSE]

\* sendToVMC(message): [link, sent]
sendToVMC(L, message) ==
    IF IsOpen(L)
    THEN [link |-> [L EXCEPT !.wire = Append(@, [sock |-> L.vmcClient,
                                                   req |-> message.req,
                                                   items |-> message.items])],
          sent |-> TRUE]
    ELSE [link |-> connectToVMC(L, FALSE), sent |-> FALSE]

SetLink(L) ==
    /\ vmcClient' = L.vmcClient
    /\ socks' = L.socks
    /\ wire' = L.wire

\* vmcClient.on('open')
SockOpen(s) ==
    /\ socks[s].state = "connecting"
    /\ socks' = [socks EXCEPT ![s].state = "open"]
    /\ reconnectTimeout' = "null"
    /\ reconnectHandler' = FALSE
    /\ reconnectTimers' = IF reconnectTimeout = "pending" THEN reconnectTimers - 1
                           ELSE reconnectTimers
    /\ UNCHANGED <<vmcClient, retry, wire>>
    /\ UNCHANGED <<cartVars, vmcVars, cacheVars>>
    /\ UNCHANGED frontVars

\* a close handler that schedules a reconnect whatever reconnectTimeout holds
OnCloseAlwaysSchedules(s) ==
    /\ socks' = [socks EXCEPT ![s] = NoSock]
    /\ vmcClient' = 0
    /\ wire' = SelectSeq(wire, LAMBDA m : m.sock # s)
    /\ reconnectTimeout' = "pending"
    /\ reconnectHandler' = socks[s].onMessage
    /\ reconnectTimers' = reconnectTimers + 1
    /\ UNCHANGED retry

\* vmcClient.on('close'): of any socket this module created, current or superseded
OnClose(s) ==
    /\ socks' = [socks EXCEPT ![s] = NoSock]
    /\ vmcClient' = 0
    /\ wire' = SelectSeq(wire, LAMBDA m : m.sock # s)
    /\ IF reconnectTimeout = "null"
       THEN /\ reconnectTimeout' = "pending"
            /\ reconnectHandler' = socks[s].onMessage
            /\ reconnectTimers' = reconnectTimers + 1
       ELSE UNCHANGED <<reconnectTimeout, reconnectHandler, reconnectTimers>>
    /\ UNCHANGED retry

\* the connection attempt fails: 'error', then 'close'
SockFail(s) ==
    /\ socks[s].state = "connecting"
    /\ OnClose(s)
    /\ UNCHANGED <<cartVars, vmcVars, cacheVars>>
    /\ UNCHANGED frontVars

\* an established connection drops: 'close'
SockDrop(s) ==
    /\ socks[s].state = "open"
    /\ OnClose(s)
    /\ UNCHANGED <<cartVars, vmcVars, cacheVars>>
    /\ UNCHANGED frontVars

\* the 3 s reconnect callback: connectToVMC(onMessage); the handle is not reset
ReconnectFire ==
    /\ reconnectTimeout = "pending"
    /\ Creates(Link) <= Cardinality(FreeSocks(Link))
    /\ reconnectTimeout' = "fired"
    /\ reconnectTimers' = reconnectTimers - 1
    /\ SetLink(connectToVMC(Link, reconnectHandler))
    /\ reconnectHandler' = FALSE
    /\ UNCHANGED retry
    /\ UNCHANGED <<cartVars, vmcVars, cacheVars>>
    /\ UNCHANGED frontVars


\* --------------------------------------------- cart.controller.ts handlers
NoResp == [op |-> "none", status |-> 0]

\* requests are issued in slot order
CanStart(r) == pc[r] = "idle" /\ (IF r = 1 THEN TRUE ELSE pc[r - 1] # "idle")

\* between its stock read and its last cart/stock write
InWindow(r) == pc[r] \in {"add_loaded", "conf_loaded", "conf_write", "conf_written"}

\* request m wrote the cart or the file: every other request in its window saw
\* a foreign write between its read and its write
Touch(m) ==
    dirty' = IF cart' # cart \/ file' # file
             THEN dirty \cup {r \in Req \ {m} : InWindow(r)}
             ELSE dirty

Finish(r, response) ==
    /\ pc' = [pc EXCEPT ![r] = "done"]
    /\ data' = [data EXCEPT ![r] = NoData]
    /\ resp' = [resp EXCEPT ![r] = response]

\* addToCart, lines 30-33: the guard on req.body
ValidBody(p, q) == p # 0 /\ q > 0

\* addToCart with a body that fails the guard: 400, nothing read
AddInvalid(r, p, q) ==
    /\ CanStart(r)
    /\ ~ValidBody(p, q)
    /\ arg' = [arg EXCEPT ![r] = [productId |-> p, quantity |-> q]]
    /\ Finish(r, [op |-> "add", status |-> 400, error |-> "Invalid productId or quantity"])
    /\ UNCHANGED <<file, cart, deducted, dirty, cartAtSubmit, sends>>
    /\ UNCHANGED <<linkVars, vmcVars, cacheVars>>
    /\ UNCHANGED frontVars

\* addToCart up to the resolution of `await fs.readFile`: `raw` is the file as read
AddStart(r, p, q) ==
    /\ CanStart(r)
    /\ ValidBody(p, q)
    /\ arg' = [arg EXCEPT ![r] = [productId |-> p, quantity |-> q]]
    /\ data' = [data EXCEPT ![r] = file]
    /\ pc' = [pc EXCEPT ![r] = "add_loaded"]
    /\ UNCHANGED <<file, cart, resp, deducted, dirty, cartAtSubmit, sends>>
    /\ UNCHANGED <<linkVars, vmcVars, cacheVars>>
    /\ UNCHANGED frontVars

\* addToCart whose readFile rejects: the catch block answers 500
AddReadError(r, p, q) ==
    /\ CanStart(r)
    /\ ValidBody(p, q)
    /\ arg' = [arg EXCEPT ![r] = [productId |-> p, quantity |-> q]]
    /\ Finish(r, [op |-> "add", status |-> 500, error |-> "Failed to add to cart"])
    /\ UNCHANGED <<file, cart, deducted, dirty, cartAtSubmit, sends>>
    /\ UNCHANGED <<linkVars, vmcVars, cacheVars>>
    /\ UNCHANGED frontVars

\* the stock check without the quantity already in the cart
InsufficientStockIgnoringCart(inCart, quantity, available) == quantity > available

\* addToCart, lines 46-54: the stock check
InsufficientStock(inCart, quantity, available) == inCart + quantity > available

\* the error body with `requested` holding the total the cart would reach
InsufficientStockErrorTotal(productId, available, inCart, quantity) ==
    [op |-> "add", status |-> 400, error |-> "INSUFFICIENT_STOCK",
     productId |-> productId, available |-> available,
     inCart |-> inCart, requested |-> inCart + quantity]

\* addToCart, lines 47-54: the body of the insufficient-stock answer
InsufficientStockError(productId, available, inCart, quantity) ==
    [op |-> "add", status |-> 400, error |-> "INSUFFICIENT_STOCK",
     productId |-> productId, available |-> available,
     inCart |-> inCart, requested |-> quantity]

\* addToCart that writes the cart before it checks the stock, up to the stock
AddResultWritesFirst(c, productId, quantity, available) ==
    LET inCart == CartGet(c, productId)
    IN IF InsufficientStock(inCart, quantity, available)
       THEN [items |-> CartSet(c, productId, available),
             response |-> InsufficientStockError(productId, available, inCart, quantity)]
       ELSE LET items == CartSet(c, productId, inCart + quantity)
            IN [items |-> items,
                response |-> [op |-> "add", status |-> 200, items |-> items]]

\* addToCart, lines 45-57, for a product with stock `available`: the cart it
\* leaves and the answer it gives
AddResult(c, productId, quantity, available) ==
    LET inCart == CartGet(c, productId)
    IN IF InsufficientStock(inCart, quantity, available)
       THEN [items |-> c,
             response |-> InsufficientStockError(productId, available, inCart, quantity)]
       ELSE LET items == CartSet(c, productId, inCart + quantity)
            IN [items |-> items,
                response |-> [op |-> "add", status |-> 200, items |-> items]]

\* addToCart after the await, lines 36-57, one synchronous run
AddContinue(r) ==
    /\ pc[r] = "add_loaded"
    /\ LET productId == arg[r].productId
           quantity == arg[r].quantity
       IN IF productId \notin DOMAIN data[r]
          THEN /\ Finish(r, [op |-> "add", status |-> 404, error |-> "not found",
                             productId |-> productId])
               /\ UNCHANGED cart
          ELSE LET res == AddResult(cart, productId, quantity, data[r][productId])
               IN /\ cart' = res.items
                  /\ Finish(r, res.response)
    /\ UNCHANGED file
    /\ Touch(r)
    /\ UNCHANGED <<arg, deducted, cartAtSubmit, sends>>
    /\ UNCHANGED <<linkVars, vmcVars, cacheVars>>
    /\ UNCHANGED frontVars

\* a clear that removes the oldest line only
clearCartOldest(r) ==
    /\ CanStart(r)
    /\ cart' = IF cart = <<>> THEN <<>> ELSE Tail(cart)
    /\ UNCHANGED file
    /\ Touch(r)
    /\ Finish(r, [op |-> "clear", status |-> 200])
    /\ UNCHANGED <<arg, deducted, cartAtSubmit, sends>>
    /\ UNCHANGED <<linkVars, vmcVars, cacheVars>>
    /\ UNCHANGED frontVars

\* clearCart: synchronous
clearCart(r) ==
    /\ CanStart(r)
    /\ cart' = <<>>
    /\ UNCHANGED file
    /\ Touch(r)
    /\ Finish(r, [op |-> "clear", status |-> 200])
    /\ UNCHANGED <<arg, deducted, cartAtSubmit, sends>>
    /\ UNCHANGED <<linkVars, vmcVars, cacheVars>>
    /\ UNCHANGED frontVars


\* confirmCheckout, lines 106-117: the cart lines that fail validation against `data`
BadLines(c, d) ==
    {i \in 1..Len(c) : \/ c[i].productId \notin DOMAIN d
                       \/ d[c[i].productId] < c[i].quantity}

\* confirmCheckout, lines 119-125: item.shelf_life_count = Math.max(0, current - qty)
Deduct(d, c) ==
    [p \in DOMAIN d |-> IF CartHas(c, p) THEN Max(0, d[p] - CartGet(c, p)) ELSE d[p]]

\* confirmCheckout up to the resolution of `await fs.readFile`
ConfirmStart(r) ==
    /\ CanStart(r)
    /\ data' = [data EXCEPT ![r] = file]
    /\ pc' = [pc EXCEPT ![r] = "conf_loaded"]
    /\ UNCHANGED <<file, cart, arg, resp, deducted, dirty, cartAtSubmit, sends>>
    /\ UNCHANGED <<linkVars, vmcVars, cacheVars>>
    /\ UNCHANGED frontVars

\* confirmCheckout whose readFile rejects: the catch block answers 500
ConfirmReadError(r) ==
    /\ CanStart(r)
    /\ Finish(r, [op |-> "confirm", status |-> 500, error |-> "Confirm checkout failed",
                  message |-> "readFile"])
    /\ UNCHANGED <<file, cart, arg, deducted, dirty, cartAtSubmit, sends>>
    /\ UNCHANGED <<linkVars, vmcVars, cacheVars>>
    /\ UNCHANGED frontVars

\* confirmCheckout, lines 97-128, one synchronous run: validate the cart as it is
\* now against `data`, deduct in `data`, call fs.writeFile
ConfirmValidate(r) ==
    /\ pc[r] = "conf_loaded"
    /\ LET bad == BadLines(cart, data[r])
       IN IF bad # {}
          THEN LET i == CHOOSE x \in bad : \A y \in bad : x <= y
                   productId == cart[i].productId
               IN /\ IF productId \notin DOMAIN data[r]
                     THEN Finish(r, [op |-> "confirm", status |-> 400,
                                     error |-> "not found", productId |-> productId])
                     ELSE Finish(r, [op |-> "confirm", status |-> 400,
                                     error |-> "Insufficient stock",
                                     productId |-> productId,
                                     available |-> data[r][productId],
                                     requested |-> cart[i].quantity])
                  /\ UNCHANGED deducted
          ELSE /\ data' = [data EXCEPT ![r] = Deduct(data[r], cart)]
               /\ deducted' = [deducted EXCEPT ![r] = cart]
               /\ pc' = [pc EXCEPT ![r] = "conf_write"]
               /\ UNCHANGED resp
    /\ UNCHANGED <<file, cart, arg, dirty, cartAtSubmit, sends>>
    /\ UNCHANGED <<linkVars, vmcVars, cacheVars>>
    /\ UNCHANGED frontVars

\* fs.writeFile stores the serialised `data`
ConfirmWrite(r) ==
    /\ pc[r] = "conf_write"
    /\ file' = data[r]
    /\ pc' = [pc EXCEPT ![r] = "conf_written"]
    /\ UNCHANGED cart
    /\ Touch(r)
    /\ UNCHANGED <<arg, data, resp, deducted, cartAtSubmit, sends>>
    /\ UNCHANGED <<linkVars, vmcVars, cacheVars>>
    /\ UNCHANGED frontVars

\* a failed write after which the handler goes on to clear the cart and send
ConfirmWriteErrorSends(r) ==
    /\ pc[r] = "conf_write"
    /\ pc' = [pc EXCEPT ![r] = "conf_written"]
    /\ UNCHANGED <<file, cart, arg, data, resp, deducted, dirty, cartAtSubmit, sends>>
    /\ UNCHANGED <<linkVars, vmcVars, cacheVars>>
    /\ UNCHANGED frontVars

\* fs.writeFile rejects: the catch block answers 500
ConfirmWriteError(r) ==
    /\ pc[r] = "conf_write"
    /\ Finish(r, [op |-> "confirm", status |-> 500, error |-> "Confirm checkout failed",
                  message |-> "writeFile"])
    /\ deducted' = [deducted EXCEPT ![r] = <<>>]
    /\ UNCHANGED <<file, cart, arg, dirty, cartAtSubmit, sends>>
    /\ UNCHANGED <<linkVars, vmcVars, cacheVars>>
    /\ UNCHANGED frontVars

\* jsonData.ts invalidateJsonCache()
invalidateJsonCache ==
    /\ cachedProducts' = NoData
    /\ lastLoaded' = 0

\* a submission that schedules the retry whether or not the first send went out
SubmitAlwaysRetries(L, message) ==
    LET first == sendToVMC(L, message)
    IN IF first.sent
       THEN [link |-> first.link, sent |-> TRUE, timers |-> {message}]
       ELSE [link |-> connectToVMC(first.link, FALSE), sent |-> FALSE,
             timers |-> {message}]

\* confirmCheckout, lines 141-154: sendToVMC, and when it was not sent
\* connectToVMC() and one setTimeout(sendToVMC, 1000)
Submit(L, message) ==
    LET first == sendToVMC(L, message)
    IN IF first.sent
       THEN [link |-> first.link, sent |-> TRUE, timers |-> {}]
       ELSE [link |-> connectToVMC(first.link, FALSE), sent |-> FALSE,
             timers |-> {message}]

\* WebSocket objects Submit creates
SubmitCreates(L) == IF IsOpen(L) THEN 0 ELSE 2

\* confirmCheckout after `await fs.writeFile`, lines 129-156, one synchronous run
ConfirmFinish(r) ==
    /\ pc[r] = "conf_written"
    /\ SubmitCreates(Link) <= Cardinality(FreeSocks(Link))
    /\ LET entries == cart
           vendItems == VendItems(entries)
           cleared == <<>>
           sub == Submit(Link, [req |-> r, items |-> vendItems])
       IN /\ cart' = cleared
          /\ cartAtSubmit' = [cartAtSubmit EXCEPT ![r] = cleared]
          /\ SetLink(sub.link)
          /\ retry' = retry \cup sub.timers
          /\ sends' = [sends EXCEPT ![r] = <<sub.sent>>]
          /\ Finish(r, [op |-> "confirm", status |-> 200, checkedOut |-> entries,
                        sent |-> sub.sent, items |-> Len(vendItems)])
    /\ UNCHANGED file
    /\ Touch(r)
    /\ invalidateJsonCache
    /\ UNCHANGED <<arg, deducted, reconnectTimeout, reconnectHandler, reconnectTimers>>
    /\ UNCHANGED <<vmcVars, now, loadedAt>>
    /\ UNCHANGED frontVars

\* the 1 s callback of confirmCheckout: sendToVMC(vendMessage), result dropped
RetryFire(m) ==
    /\ m \in retry
    /\ Creates(Link) <= Cardinality(FreeSocks(Link))
    /\ LET second == sendToVMC(Link, m)
       IN /\ SetLink(second.link)
          /\ sends' = [sends EXCEPT ![m.req] = Append(@, second.sent)]
    /\ retry' = retry \ {m}
    /\ UNCHANGED <<file, cart, pc, arg, data, resp, deducted, dirty, cartAtSubmit>>
    /\ UNCHANGED <<reconnectTimeout, reconnectHandler, reconnectTimers>>
    /\ UNCHANGED <<vmcVars, cacheVars>>
    /\ UNCHANGED frontVars

\* ------------------------------------------------ prepareCheckout, jsonData
\* data.json: product_price of product p (no code writes it)
product_price(p) == 5 * p

\* loadProducts, line 147: the cache is served
CacheFresh == cachedProducts # NoData /\ now - lastLoaded < CACHE_TTL_MS

RECURSIVE Sum(_)
Sum(amounts) == IF amounts = <<>> THEN 0 ELSE Head(amounts) + Sum(Tail(amounts))

\* an order whose unit prices vary with the time of the call
PrepareOrderTimed(c, products, t) ==
    LET items == [i \in 1..Len(c) |->
                    LET price == IF c[i].productId \in DOMAIN products
                                 THEN product_price(c[i].productId) + (t % 2) ELSE 0
                    IN [productId |-> c[i].productId, quantity |-> c[i].quantity,
                        price |-> price, amount |-> price * c[i].quantity]]
    IN [op |-> "prepare", status |-> 200, orderId |-> t, items |-> items,
        total |-> Sum([i \in 1..Len(items) |-> items[i].amount])]

\* an order whose line amounts are the unit prices
PrepareOrderUnitAmounts(c, products, t) ==
    LET items == [i \in 1..Len(c) |->
                    LET price == IF c[i].productId \in DOMAIN products
                                 THEN product_price(c[i].productId) ELSE 0
                    IN [productId |-> c[i].productId, quantity |-> c[i].quantity,
                        price |-> price, amount |-> price]]
    IN [op |-> "prepare", status |-> 200, orderId |-> t, items |-> items,
        total |-> Sum([i \in 1..Len(items) |-> items[i].amount])]

\* prepareCheckout, lines 73-85: the order built from cart.items, the products
\* loaded and Date.now() (an amount is held as amount * Unit)
PrepareOrder(c, products, t) ==
    LET items == [i \in 1..Len(c) |->
                    LET price == IF c[i].productId \in DOMAIN products
                                 THEN product_price(c[i].productId) ELSE 0
                    IN [productId |-> c[i].productId, quantity |-> c[i].quantity,
                        price |-> price, amount |-> price * c[i].quantity]]
    IN [op |-> "prepare", status |-> 200, orderId |-> t, items |-> items,
        total |-> Sum([i \in 1..Len(items) |-> items[i].amount])]

\* a prepare that takes the stock of the cart lines out of the file
PreparedReserves(r, products) ==
    /\ Finish(r, PrepareOrder(cart, products, now))
    /\ loadedAt' = [loadedAt EXCEPT ![r] = 0]
    /\ file' = Deduct(file, cart)
    /\ UNCHANGED <<cart, arg, deducted, dirty, cartAtSubmit, sends, now>>
    /\ UNCHANGED <<linkVars, vmcVars>>
    /\ UNCHANGED frontVars

\* prepareCheckout after `await loadProducts()`, lines 73-85, one synchronous run
Prepared(r, products) ==
    /\ Finish(r, PrepareOrder(cart, products, now))
    /\ loadedAt' = [loadedAt EXCEPT ![r] = 0]
    /\ UNCHANGED <<file, cart, arg, deducted, dirty, cartAtSubmit, sends, now>>
    /\ UNCHANGED <<linkVars, vmcVars>>
    /\ UNCHANGED frontVars

\* prepareCheckout while the cache is fresh: loadProducts returns cachedProducts
\* without I/O, and the handler runs to its response
PrepareCached(r) ==
    /\ CanStart(r)
    /\ CacheFresh
    /\ Prepared(r, cachedProducts)
    /\ UNCHANGED <<cachedProducts, lastLoaded>>

\* prepareCheckout, cache empty or expired: loadProducts takes `now` and awaits
\* readJsonFile, up to the resolution of the read
PrepareStart(r) ==
    /\ CanStart(r)
    /\ ~CacheFresh
    /\ loadedAt' = [loadedAt EXCEPT ![r] = now]
    /\ data' = [data EXCEPT ![r] = file]
    /\ pc' = [pc EXCEPT ![r] = "prep_loaded"]
    /\ UNCHANGED <<file, cart, arg, resp, deducted, dirty, cartAtSubmit, sends>>
    /\ UNCHANGED <<now, cachedProducts, lastLoaded>>
    /\ UNCHANGED <<linkVars, vmcVars>>
    /\ UNCHANGED frontVars

\* readJsonFile rejects: the catch block of prepareCheckout answers 500
PrepareReadError(r) ==
    /\ CanStart(r)
    /\ ~CacheFresh
    /\ Finish(r, [op |-> "prepare", status |-> 500, error |-> "Failed to prepare checkout"])
    /\ UNCHANGED <<file, cart, arg, deducted, dirty, cartAtSubmit, sends>>
    /\ UNCHANGED <<linkVars, vmcVars, cacheVars>>
    /\ UNCHANGED frontVars

\* loadProducts after the read, lines 151-155, then prepareCheckout to its response
PrepareContinue(r) ==
    /\ pc[r] = "prep_loaded"
    /\ cachedProducts' = data[r]
    /\ lastLoaded' = loadedAt[r]
    /\ Prepared(r, data[r])

\* the instants at which the clock is observed: the first ms after the start of
\* the backend and the first ms after one lifetime of the cache
Instants == {j : j \in 0..MaxMs} \cup {CACHE_TTL_MS + j : j \in 0..MaxMs}

\* the clock advances to the instant t
Tick(t) ==
    /\ t > now
    /\ now' = t
    /\ UNCHANGED <<cachedProducts, lastLoaded, loadedAt>>
    /\ UNCHANGED <<cartVars, linkVars, vmcVars>>
    /\ UNCHANGED frontVars

\* ------------------------------------------ VMC mock server (vend handling)
vendingDelay == 5000        \* ms from accept to completion
statusIntervalMs == 1000    \* ms between two progress broadcasts

Idle == [status |-> "idle", currentItems |-> <<>>, startTime |-> FALSE,
         timeout |-> FALSE, statusInterval |-> FALSE]

NoTimers == [interval |-> 0, timeout |-> 0, ticks |-> 0]

NoReply == [type |-> "none"]

\* the `items` of a vend request: an array or not, and its elements
Items(items) == [array |-> TRUE, items |-> items]
NotAnArray == [array |-> FALSE, items |-> <<>>]

\* a classification that starts a cycle although one is running
VendOutcomeNoBusy(state, body) ==
    IF ~body.array \/ body.items = <<>> THEN "invalid" ELSE "accept"

\* a classification that takes an empty array for a dispense list
VendOutcomeAcceptsEmpty(state, body) ==
    IF ~body.array THEN "invalid"
    ELSE IF state.status = "vending" THEN "busy"
    ELSE "accept"

\* lines 72-77 and 178-196: what the server does with a vend request
VendOutcome(state, body) ==
    IF ~body.array \/ body.items = <<>> THEN "invalid"
    ELSE IF state.status = "vending" THEN "busy"
    ELSE "accept"

\* a busy answer that does not tell what is in flight
BusyReplyBare(state) == [type |-> "busy", currentItems |-> <<>>]

\* lines 76 and 189-194: the answer while a cycle is running
BusyReply(state) == [type |-> "busy", currentItems |-> state.currentItems]

\* lines 80-138 and 199-266: the state is set, the start is broadcast, the
\* requester is answered, setInterval and setTimeout are called
StartCycle(items) ==
    /\ vendingState' = [status |-> "vending", currentItems |-> items, startTime |-> TRUE,
                        timeout |-> TRUE, statusInterval |-> TRUE]
    /\ timers' = [interval |-> timers.interval + 1, timeout |-> timers.timeout + 1,
                  ticks |-> 0]
    /\ vmcLog' = <<[type |-> "accept", items |-> items, elapsedTime |-> 0]>>
    /\ vmcReply' = [type |-> "accepted", items |-> items]

\* a vend request handled by the server: refused, answered busy, or accepted
HandleVend(body) ==
    LET outcome == VendOutcome(vendingState, body)
    IN IF outcome = "invalid"
       THEN /\ vmcReply' = [type |-> "invalid"]
            /\ UNCHANGED <<vendingState, timers, vmcLog>>
       ELSE IF outcome = "busy"
       THEN /\ vmcReply' = BusyReply(vendingState)
            /\ UNCHANGED <<vendingState, timers, vmcLog>>
       ELSE StartCycle(body.items)

\* wss 'message' handler, type 'vend', for a command of the backend
VmcReceive ==
    /\ wire # <<>>
    /\ LET m == Head(wire)
           outcome == VendOutcome(vendingState, Items(m.items))
       IN /\ HandleVend(Items(m.items))
          /\ busy' = IF outcome = "busy" THEN busy \cup {m.req} ELSE busy
          /\ accepted' = IF outcome = "accept" THEN accepted \cup {m.req} ELSE accepted
    /\ wire' = Tail(wire)
    /\ UNCHANGED <<vmcClient, socks, reconnectTimeout, reconnectHandler, reconnectTimers,
                   retry>>
    /\ UNCHANGED <<cartVars, cacheVars>>
    /\ UNCHANGED frontVars

\* wss 'message' handler, type 'vend', for a message of any other WebSocket client
WsVend(body) ==
    /\ HandleVend(body)
    /\ UNCHANGED <<accepted, busy>>
    /\ UNCHANGED <<cartVars, linkVars, cacheVars>>
    /\ UNCHANGED frontVars

\* POST /vend on the VMC server itself
HttpVend(body) ==
    /\ HandleVend(body)
    /\ UNCHANGED <<accepted, busy>>
    /\ UNCHANGED <<cartVars, linkVars, cacheVars>>
    /\ UNCHANGED frontVars

\* a progress broadcast that reports the period instead of the time since the start
VendTickFlat ==
    /\ timers.interval > 0
    /\ (timers.ticks + 1) * statusIntervalMs <= vendingDelay
    /\ IF vendingState.status = "vending" /\ vendingState.startTime
       THEN /\ vmcLog' = Append(vmcLog, [type |-> "tick",
                                          items |-> vendingState.currentItems,
                                          elapsedTime |-> statusIntervalMs])
            /\ timers' = [timers EXCEPT !.ticks = @ + 1]
            /\ UNCHANGED vendingState
       ELSE /\ timers' = IF vendingState.statusInterval
                         THEN [timers EXCEPT !.interval = @ - 1] ELSE timers
            /\ vendingState' = [vendingState EXCEPT !.statusInterval = FALSE]
            /\ UNCHANGED vmcLog
    /\ UNCHANGED <<vmcReply, accepted, busy>>
    /\ UNCHANGED <<cartVars, linkVars, cacheVars>>
    /\ UNCHANGED frontVars

\* the setInterval callback, due every statusIntervalMs since the cycle started:
\* a progress broadcast while vending, else it clears itself
VendTick ==
    /\ timers.interval > 0
    /\ (timers.ticks + 1) * statusIntervalMs <= vendingDelay
    /\ IF vendingState.status = "vending" /\ vendingState.startTime
       THEN /\ vmcLog' = Append(vmcLog, [type |-> "tick",
                                          items |-> vendingState.currentItems,
                                          elapsedTime |-> (timers.ticks + 1) * statusIntervalMs])
            /\ timers' = [timers EXCEPT !.ticks = @ + 1]
            /\ UNCHANGED vendingState
       ELSE /\ timers' = IF vendingState.statusInterval
                         THEN [timers EXCEPT !.interval = @ - 1] ELSE timers
            /\ vendingState' = [vendingState EXCEPT !.statusInterval = FALSE]
            /\ UNCHANGED vmcLog
    /\ UNCHANGED <<vmcReply, accepted, busy>>
    /\ UNCHANGED <<cartVars, linkVars, cacheVars>>
    /\ UNCHANGED frontVars

\* a completion that leaves the interval running
VendCompleteKeepsInterval ==
    /\ timers.timeout > 0
    /\ vmcLog' = Append(vmcLog, [type |-> "complete", items |-> vendingState.currentItems,
                                  elapsedTime |-> vendingDelay])
    /\ vendingState' = [Idle EXCEPT !.statusInterval = vendingState.statusInterval]
    /\ timers' = [timers EXCEPT !.timeout = @ - 1]
    /\ UNCHANGED <<vmcReply, accepted, busy>>
    /\ UNCHANGED <<cartVars, linkVars, cacheVars>>
    /\ UNCHANGED frontVars

\* a completion that reads the items after it has cleared them
VendCompleteItemsCleared ==
    /\ timers.timeout > 0
    /\ vmcLog' = Append(vmcLog, [type |-> "complete", items |-> <<>>,
                                  elapsedTime |-> vendingDelay])
    /\ vendingState' = Idle
    /\ timers' = [interval |-> IF vendingState.statusInterval
                               THEN timers.interval - 1 ELSE timers.interval,
                  timeout |-> timers.timeout - 1,
                  ticks |-> 0]
    /\ UNCHANGED <<vmcReply, accepted, busy>>
    /\ UNCHANGED <<cartVars, linkVars, cacheVars>>
    /\ UNCHANGED frontVars

\* the setTimeout callback of a cycle: clears the interval, back to idle,
\* broadcasts vend-complete with the items of the cycle.  (How many progress
\* broadcasts came before it is left open: zero up to vendingDelay / statusIntervalMs.)
VendComplete ==
    /\ timers.timeout > 0
    /\ vmcLog' = Append(vmcLog, [type |-> "complete", items |-> vendingState.currentItems,
                                  elapsedTime |-> vendingDelay])
    /\ vendingState' = Idle
    /\ timers' = [interval |-> IF vendingState.statusInterval
                               THEN timers.interval - 1 ELSE timers.interval,
                  timeout |-> timers.timeout - 1,
                  ticks |-> 0]
    /\ UNCHANGED <<vmcReply, accepted, busy>>
    /\ UNCHANGED <<cartVars, linkVars, cacheVars>>
    /\ UNCHANGED frontVars

\* ------------------------------------------- VMCWebSocket (browser client)
maxReconnectAttempts == 5

WSock == 1..MaxWs
Listener == 1..MaxListeners

FreeWs == {s \in WSock : wsocks[s] = "none"}

\* this.ws?.readyState === WebSocket.OPEN
WsIsOpen == ws # 0 /\ wsocks[ws] = "open"

\* Math.min(1000 * Math.pow(2, this.reconnectAttempts), 10000)
Delay(attempts) ==
    IF 1000 * 2^attempts < 10000 THEN 1000 * 2^attempts ELSE 10000

\* connect(): nothing when open, else a new WebSocket (also when the current one
\* is still connecting) that this.ws then refers to
WsConnect ==
    IF WsIsOpen
    THEN UNCHANGED <<ws, wsocks>>
    ELSE /\ FreeWs # {}
         /\ LET s == CHOOSE x \in FreeWs : \A y \in FreeWs : x <= y
            IN /\ wsocks' = [wsocks EXCEPT ![s] = "connecting"]
               /\ ws' = s

\* connect() called by the UI
Connect ==
    /\ WsConnect
    /\ stopped' = FALSE
    /\ UNCHANGED <<wsReconnectTimeout, wsTimers, reconnectAttempts, listeners, invoked,
                   sinceOpen>>
    /\ UNCHANGED <<cartVars, linkVars, vmcVars, cacheVars>>

\* ws.onopen
WsOpen(s) ==
    /\ wsocks[s] = "connecting"
    /\ wsocks' = [wsocks EXCEPT ![s] = "open"]
    /\ reconnectAttempts' = 0
    /\ sinceOpen' = 0
    /\ wsReconnectTimeout' = 0
    /\ wsTimers' = IF wsReconnectTimeout # 0 THEN wsTimers - 1 ELSE wsTimers
    /\ UNCHANGED <<ws, listeners, invoked, stopped>>
    /\ UNCHANGED <<cartVars, linkVars, vmcVars, cacheVars>>

\* ws.onmessage: every listener is called; a socket on which close() was called
\* still delivers what arrives before it is closed
WsMessage(s) ==
    /\ wsocks[s] \in {"open", "closing"}
    /\ invoked' = listeners
    /\ UNCHANGED <<ws, wsocks, wsReconnectTimeout, wsTimers, reconnectAttempts, listeners,
                   stopped, sinceOpen>>
    /\ UNCHANGED <<cartVars, linkVars, vmcVars, cacheVars>>

\* attemptReconnect() without the limit on the attempts
attemptReconnectUnlimited ==
    IF wsReconnectTimeout = 0
    THEN /\ wsReconnectTimeout' = Delay(reconnectAttempts)
         /\ reconnectAttempts' = reconnectAttempts + 1
         /\ wsTimers' = wsTimers + 1
    ELSE UNCHANGED <<wsReconnectTimeout, reconnectAttempts, wsTimers>>

\* attemptReconnect()
attemptReconnect ==
    IF reconnectAttempts >= maxReconnectAttempts
    THEN UNCHANGED <<wsReconnectTimeout, reconnectAttempts, wsTimers>>
    ELSE IF wsReconnectTimeout = 0
    THEN /\ wsReconnectTimeout' = Delay(reconnectAttempts)
         /\ reconnectAttempts' = reconnectAttempts + 1
         /\ wsTimers' = wsTimers + 1
    ELSE UNCHANGED <<wsReconnectTimeout, reconnectAttempts, wsTimers>>

\* ws.onclose of any socket the client created: the attempt failed, the server
\* dropped the connection, or close() has completed
WsClose(s) ==
    /\ wsocks[s] # "none"
    /\ wsocks' = [wsocks EXCEPT ![s] = "none"]
    /\ ws' = 0
    /\ attemptReconnect
    /\ UNCHANGED <<listeners, invoked, stopped, sinceOpen>>
    /\ UNCHANGED <<cartVars, linkVars, vmcVars, cacheVars>>

\* the reconnect callback: the handle is reset, then connect()
WsReconnectFire ==
    /\ wsReconnectTimeout # 0
    /\ wsReconnectTimeout' = 0
    /\ wsTimers' = wsTimers - 1
    /\ WsConnect
    /\ sinceOpen' = IF WsIsOpen THEN sinceOpen ELSE sinceOpen + 1
    /\ UNCHANGED <<reconnectAttempts, listeners, invoked, stopped>>
    /\ UNCHANGED <<cartVars, linkVars, vmcVars, cacheVars>>

\* disconnect()
Disconnect ==
    /\ wsReconnectTimeout' = 0
    /\ wsTimers' = IF wsReconnectTimeout # 0 THEN wsTimers - 1 ELSE wsTimers
    /\ wsocks' = IF ws # 0 THEN [wsocks EXCEPT ![ws] = "closing"] ELSE wsocks
    /\ ws' = 0
    /\ listeners' = {}
    /\ invoked' = {}
    /\ stopped' = TRUE
    /\ UNCHANGED <<reconnectAttempts, sinceOpen>>
    /\ UNCHANGED <<cartVars, linkVars, vmcVars, cacheVars>>

\* onMessage(callback)
Subscribe(l) ==
    /\ listeners' = listeners \cup {l}
    /\ UNCHANGED <<ws, wsocks, wsReconnectTimeout, wsTimers, reconnectAttempts, invoked,
                   stopped, sinceOpen>>
    /\ UNCHANGED <<cartVars, linkVars, vmcVars, cacheVars>>

\* the function onMessage(callback) returned
Unsubscribe(l) ==
    /\ listeners' = listeners \ {l}
    /\ UNCHANGED <<ws, wsocks, wsReconnectTimeout, wsTimers, reconnectAttempts, invoked,
                   stopped, sinceOpen>>
    /\ UNCHANGED <<cartVars, linkVars, vmcVars, cacheVars>>

\* ------------------------------------------------------------ behaviours
\* shelf_life_count of every product when the backend starts
InitialStock == MaxStock * Unit

\* after module load: empty cart, app.ts has called connectToVMC(handler)
Init ==
    /\ file = [p \in PIDs |-> InitialStock]
    /\ cart = <<>>
    /\ pc = [r \in Req |-> "idle"]
    /\ arg = [r \in Req |-> [productId |-> 0, quantity |-> 0]]
    /\ data = [r \in Req |-> NoData]
    /\ resp = [r \in Req |-> NoResp]
    /\ deducted = [r \in Req |-> <<>>]
    /\ dirty = {}
    /\ cartAtSubmit = [r \in Req |-> <<>>]
    /\ sends = [r \in Req |-> <<>>]
    /\ vmcClient = 1
    /\ socks = [s \in Sock |-> IF s = 1 THEN [state |-> "connecting", onMessage |-> TRUE]
                               ELSE NoSock]
    /\ reconnectTimeout = "null"
    /\ reconnectHandler = FALSE
    /\ reconnectTimers = 0
    /\ retry = {}
    /\ wire = <<>>
    /\ vendingState = Idle
    /\ timers = NoTimers
    /\ vmcLog = <<>>
    /\ vmcReply = NoReply
    /\ accepted = {}
    /\ busy = {}
    /\ now = 0
    /\ cachedProducts = NoData
    /\ lastLoaded = 0
    /\ loadedAt = [r \in Req |-> 0]
    /\ ws = 0
    /\ wsocks = [s \in WSock |-> "none"]
    /\ wsReconnectTimeout = 0
    /\ wsTimers = 0
    /\ reconnectAttempts = 0
    /\ listeners = {}
    /\ invoked = {}
    /\ stopped = FALSE
    /\ sinceOpen = 0

\* req.body.quantity: whole numbers, numbers the guard refuses, fractions
Quantities == {q * Unit : q \in 1..MaxQty}
BadQuantities == {0, -Unit}
FracQuantities == {q * Unit + 1 : q \in 0..(MaxQty - 1)}
BodyPids == 1..(NumProducts + 1)

CartNext ==
    \/ \E r \in Req, p \in BodyPids, q \in Quantities : AddStart(r, p, q)
    \/ \E r \in Req, p \in PIDs, q \in BadQuantities : AddInvalid(r, p, q)
    \/ \E r \in Req : AddReadError(r, 1, Unit)
    \/ \E r \in Req : AddContinue(r)
    \/ \E r \in Req : clearCart(r)
    \/ \E r \in Req : ConfirmStart(r)
    \/ \E r \in Req : ConfirmReadError(r)
    \/ \E r \in Req : ConfirmValidate(r)
    \/ \E r \in Req : ConfirmWrite(r)
    \/ \E r \in Req : ConfirmWriteError(r)
    \/ \E r \in Req : ConfirmFinish(r)

\* Concurrent requests against the cart and the stock file; the link may come up.
Next ==
    \/ CartNext
    \/ \E s \in Sock : SockOpen(s)

Spec == Init /\ [][Next]_vars

\* addToCart and clearCart requests only, sequential or overlapping; no stock write.
AddNext ==
    \/ \E r \in Req, p \in BodyPids, q \in Quantities : AddStart(r, p, q)
    \/ \E r \in Req, q \in BadQuantities : AddInvalid(r, 1, q)
    \/ \E r \in Req : AddReadError(r, 1, Unit)
    \/ \E r \in Req : AddContinue(r)
    \/ \E r \in Req : clearCart(r)

SpecAdd == Init /\ [][AddNext]_vars

\* no handler is suspended
Quiet == \A r \in Req : pc[r] \in {"idle", "done"}

VendReq == 1..MaxVendReq

\* One kiosk session on product 1 (an add, then a checkout, then an add, ... one
\* after another) with the link coming up, failing to or dropping, and a VMC
\* server that also runs cycles started over HTTP.
VendNext ==
    \/ \E r \in VendReq : r % 2 = 1 /\ Quiet /\ AddStart(r, 1, Unit)
    \/ \E r \in VendReq : AddContinue(r)
    \/ \E r \in VendReq : r % 2 = 0 /\ Quiet /\ ConfirmStart(r)
    \/ \E r \in VendReq : ConfirmValidate(r)
    \/ \E r \in VendReq : ConfirmWrite(r)
    \/ \E r \in VendReq : ConfirmWriteError(r)
    \/ \E r \in VendReq : ConfirmFinish(r)
    \/ \E s \in Sock : SockOpen(s)
    \/ \E s \in Sock : SockFail(s)
    \/ \E s \in Sock : SockDrop(s)
    \/ ReconnectFire
    \/ \E m \in retry : RetryFire(m)
    \/ VmcReceive
    \/ vendingState.status = "idle" /\ HttpVend(Items(<<1>>))
    \/ VendTick
    \/ VendComplete

SpecVend == Init /\ [][VendNext]_vars

\* what a vend request carries as items
VendBodies == {Items(<<1>>), Items(<<2, 2, 1>>), Items(<<>>), NotAnArray}

\* The VMC server under vend requests of any WebSocket client and over HTTP,
\* with its timers, and the backend link connecting, dropping and reconnecting.
VmcNext ==
    \/ \E body \in VendBodies : WsVend(body)
    \/ \E body \in VendBodies : HttpVend(body)
    \/ VendTick
    \/ VendComplete
    \/ \E s \in Sock : SockOpen(s)
    \/ \E s \in Sock : SockFail(s)
    \/ \E s \in Sock : SockDrop(s)
    \/ ReconnectFire

SpecVmc == Init /\ [][VmcNext]_vars

\* the timers of the server fire and no connection attempt stays pending
SpecVmcFair == SpecVmc /\ WF_vars(VendTick) /\ WF_vars(VendComplete)

\* Pricing the cart while it is checked out: adds and checkouts start while no
\* handler is suspended, prepares (from the cache or from the file) at any time.
CacheNext ==
    \/ \E r \in Req : Quiet /\ AddStart(r, 1, Unit)
    \/ \E r \in Req : AddContinue(r)
    \/ \E r \in Req : Quiet /\ ConfirmStart(r)
    \/ \E r \in Req : ConfirmValidate(r)
    \/ \E r \in Req : ConfirmWrite(r)
    \/ \E r \in Req : ConfirmFinish(r)
    \/ \E r \in Req : PrepareCached(r)
    \/ \E r \in Req : PrepareStart(r)
    \/ \E r \in Req : PrepareContinue(r)

SpecCache == Init /\ [][CacheNext]_vars

\* The browser client: the UI connects, disconnects, subscribes and unsubscribes
\* at any time; connections open, fail, drop and deliver messages.
FrontNext ==
    \/ Connect
    \/ Disconnect
    \/ \E l \in Listener : Subscribe(l)
    \/ \E l \in Listener : Unsubscribe(l)
    \/ \E s \in WSock : WsOpen(s)
    \/ \E s \in WSock : WsMessage(s)
    \/ \E s \in WSock : WsClose(s)
    \/ WsReconnectFire

SpecFront == Init /\ [][FrontNext]_vars

\* Requests whose body carries any JSON number as quantity: whole, zero,
\* negative or fractional; checkouts run while no add is suspended.
BodyNext ==
    \/ \E r \in Req, p \in PIDs, q \in Quantities \cup FracQuantities : AddStart(r, p, q)
    \/ \E r \in Req, p \in PIDs, q \in BadQuantities : AddInvalid(r, p, q)
    \/ \E r \in Req : AddContinue(r)
    \/ \E r \in Req : clearCart(r)
    \/ \E r \in Req : Quiet /\ ConfirmStart(r)
    \/ \E r \in Req : ConfirmValidate(r)
    \/ \E r \in Req : ConfirmWrite(r)
    \/ \E r \in Req : ConfirmFinish(r)
    \/ \E s \in Sock : SockOpen(s)

SpecBody == Init /\ [][BodyNext]_vars

\* Filling the cart and pricing it, with time passing: adds one at a time and
\* prepares (from the cache or from the file) that overlap them and each other.
PrepareNext ==
    \/ \E r \in Req, p \in PIDs, q \in {Unit, MaxQty * Unit} : Quiet /\ AddStart(r, p, q)
    \/ \E r \in Req : AddContinue(r)
    \/ \E r \in Req : PrepareCached(r)
    \/ \E r \in Req : PrepareStart(r)
    \/ \E r \in Req : PrepareReadError(r)
    \/ \E r \in Req : PrepareContinue(r)
    \/ \E t \in Instants : Tick(t)

SpecPrepare == Init /\ [][PrepareNext]_vars


\* ---------------------------------------------------------------- claims
\* Every state of a behaviour lies between two runs of the event loop, so
\* every state is one another handler (GET /api/cart, addToCart) can observe.

ConfirmOk(r) == pc[r] = "done" /\ resp[r].op = "confirm" /\ resp[r].status = 200

ConfirmFailed(r) == pc[r] = "done" /\ resp[r].op = "confirm" /\ resp[r].status >= 400

AddOk(r) == pc[r] = "done" /\ resp[r].op = "add" /\ resp[r].status = 200

\* the deduction of request r is in the file
Written(r) == pc[r] = "conf_written" \/ ConfirmOk(r)

Range(seq) == {seq[i] : i \in 1..Len(seq)}

\* C1: confirmCheckout is atomic. A confirm that succeeded deducted all the cart
\* lines it cleared (the lines it took out of the cart are exactly the lines whose
\* deduction it wrote to the file, none more and none fewer), and a confirm that
\* answered an error deducted nothing.
C1_ConfirmAtomic ==
    \A r \in Req :
        /\ ConfirmOk(r) => resp[r].checkedOut = deducted[r]
        /\ ConfirmFailed(r) => deducted[r] = <<>>

\* C2: the read-validate-write sequence of addToCart and of confirmCheckout is
\* indivisible. No request that wrote the cart or the file had a cart or stock
\* write of another request between its stock read and its own write.
C2_Indivisible ==
    \A r \in dirty : ~(AddOk(r) \/ Written(r))

\* C3: no successful addToCart leaves a cart line above live stock. Whenever a
\* step raises the reserved quantity of a product, the new quantity is at most the
\* stock the file holds for it at that moment.
C3_NoOvershoot ==
    [][\A p \in PIDs :
          CartGet(cart', p) > CartGet(cart, p) => CartGet(cart', p) <= file[p]]_vars


\* C4: for all sequences of addToCart calls (sequential or overlapping, no stock
\* change in between) the reserved quantity of a product never exceeds its live
\* stock, at any observation point.
C4_ReservedWithinStock ==
    \A p \in PIDs : CartGet(cart, p) <= file[p]

\* two overlapping addToCart calls on one product filled the line up to its stock,
\* and a further call on it was refused because of what the cart already held
C4_Witness ==
    \E p \in PIDs :
        /\ CartGet(cart, p) = file[p]
        /\ \E r1, r2 \in Req :
              /\ r1 < r2 /\ AddOk(r1) /\ AddOk(r2)
              /\ arg[r1].productId = p /\ arg[r2].productId = p
              /\ CartGet(resp[r1].items, p) > arg[r1].quantity
        /\ \E r \in Req :
              /\ pc[r] = "done" /\ resp[r].op = "add" /\ resp[r].status = 400
              /\ resp[r].error = "INSUFFICIENT_STOCK"
              /\ resp[r].productId = p /\ resp[r].inCart > 0
              /\ resp[r].requested <= resp[r].available

\* the cart lines whose reserved quantity is above the stock the file holds now
Overdrawn == {i \in 1..Len(cart) : cart[i].quantity > file[cart[i].productId]}

\* C6: if at validation any cart line exceeds current live stock, the whole
\* confirm fails with an insufficient-stock error naming an offending product,
\* and stock, cart and the link are left untouched (nothing deducted or sent).
C6_StaleConfirmFails ==
    [][\A r \in Req :
          (pc[r] = "conf_loaded" /\ pc'[r] # "conf_loaded" /\ Overdrawn # {})
          => /\ pc'[r] = "done"
             /\ resp'[r].status = 400
             /\ resp'[r].error = "Insufficient stock"
             /\ \E i \in Overdrawn : cart[i].productId = resp'[r].productId
             /\ UNCHANGED <<file, cart, wire, retry>>]_vars

\* the vend commands of request r that are on the wire or queued for the retry
Submitted(r) == {m \in Range(wire) \cup retry : m.req = r}

\* C7: a confirm whose lines all validate deducts exactly each validated line's
\* quantity from the stock of its product, and submits a dispense list holding
\* for every such line (p, q) exactly q entries of p and nothing else.
C7_DeductAndDispense ==
    [][\A r \in Req :
          /\ (pc[r] = "conf_write" /\ pc'[r] = "conf_written")
             => \A p \in PIDs : file'[p] = file[p] - CartGet(deducted[r], p)
          /\ (pc[r] = "conf_written" /\ pc'[r] = "done")
             => \E m \in Submitted(r)' :
                   \A p \in PIDs : Count(m.items, p) * Unit = CartGet(deducted[r], p)]_vars

\* C8: the cart is cleared only after the dispense submission was attempted.
\* When a confirm that checked out at least one line called sendToVMC, the cart
\* still held the lines being checked out.
C8_ClearAfterSubmit ==
    \A r \in Req :
        (ConfirmOk(r) /\ resp[r].checkedOut # <<>>)
        => cartAtSubmit[r] = resp[r].checkedOut


\* nothing is left that could still deliver the vend command of request r
Settled(r) == Submitted(r) = {}

\* the caller of request r was told that its dispense needs reconciliation
Surfaced(r) == pc[r] = "done" /\ resp[r].op = "confirm" /\ resp[r].status >= 400

\* the link was down when confirmCheckout submitted the vend command of r
LinkWasDown(r) == sends[r] # <<>> /\ ~sends[r][1]

\* C5: stock is never deducted for units that are never dispensed without a
\* reconciliation path. For every confirm that deducted stock while the link was
\* down at submission time or whose command the controller answered busy: once
\* no send or retry of its dispense list is outstanding, either the Vend
\* Controller accepted the list or an error was surfaced to the caller.
C5_NoSilentLoss ==
    \A r \in Req :
        (/\ pc[r] = "done" /\ deducted[r] # <<>>
         /\ LinkWasDown(r) \/ r \in busy
         /\ Settled(r))
        => (r \in accepted \/ Surfaced(r))

Exhausted(r) ==
    /\ sends[r] # <<>>
    /\ \A i \in 1..Len(sends[r]) : ~sends[r][i]
    /\ \A m \in retry : m.req # r

\* C10: confirmCheckout always answers, its retry makes at most a fixed number
\* of attempts (two sends in all), and when every attempt failed to deliver the
\* command the caller got an error, not a success.
C10_FailureSurfaced ==
    \A r \in Req :
        /\ Len(sends[r]) <= 2
        /\ (pc[r] = "done" /\ resp[r].op = "confirm" /\ deducted[r] # <<>> /\ Exhausted(r))
           => resp[r].status # 200


\* C11: inactive products are never purchasable. No sequence of addToCart and
\* confirmCheckout requests puts an inactive product into the cart, deducts a
\* unit of it from the file, or puts a unit of it on a dispense list.
C11_InactiveNotPurchasable ==
    \A p \in Inactive :
        /\ CartGet(cart, p) = 0
        /\ file[p] = InitialStock
        /\ \A m \in Range(wire) \cup retry : Count(m.items, p) = 0


\* the answer of request r is the insufficient-stock error of addToCart
AddInsufficient(r) ==
    pc[r] = "done" /\ resp[r].op = "add" /\ resp[r].status = 400
    /\ resp[r].error = "INSUFFICIENT_STOCK"

\* C12: addToCart(productId, quantity) on a product of the catalog fails with the
\* insufficient-stock error exactly when the quantity already in the cart plus
\* quantity exceeds the stock the call read, and the error carries available =
\* that stock, inCart = the quantity already in the cart, requested = quantity.
C12_InsufficientStockExactly ==
    [][\A r \in Req :
          (pc[r] = "add_loaded" /\ pc'[r] = "done" /\ arg[r].productId \in PIDs)
          => LET p == arg[r].productId
                 q == arg[r].quantity
             IN /\ AddInsufficient(r)' <=> (CartGet(cart, p) + q > data[r][p])
                /\ AddInsufficient(r)'
                   => /\ resp'[r].available = data[r][p]
                      /\ resp'[r].available = file[p]
                      /\ resp'[r].inCart = CartGet(cart, p)
                      /\ resp'[r].requested = q
                      /\ resp'[r].productId = p]_vars

\* the whole stock of a product is in the cart and addToCart(p, 1) was refused
\* with available = the stock, inCart = the stock, requested = 1
C12_Witness ==
    \E r \in Req :
        /\ AddInsufficient(r)
        /\ resp[r].available = InitialStock /\ resp[r].inCart = InitialStock
        /\ resp[r].requested = Unit
        /\ CartGet(cart, resp[r].productId) = InitialStock


\* the answer of request r is an error of addToCart
AddFailed(r) == pc[r] = "done" /\ resp[r].op = "add" /\ resp[r].status >= 400

C14_AddFrame ==
    [][\A r \in Req :
          (pc[r] = "add_loaded" /\ AddOk(r)')
          => LET p == arg[r].productId
                 q == arg[r].quantity
             IN /\ CartGet(cart', p) = CartGet(cart, p) + q
                /\ \A i \in 1..Len(cart) :
                      /\ cart'[i].productId = cart[i].productId
                      /\ cart[i].productId # p => cart'[i] = cart[i]
                /\ Len(cart') = IF CartHas(cart, p) THEN Len(cart) ELSE Len(cart) + 1
                /\ file' = file
                /\ resp'[r].items = cart']_vars

\* an addToCart raised an existing line while the cart held a line of another
\* product as well, and answered with both lines
C14_Witness ==
    \E r \in Req :
        /\ AddOk(r) /\ resp[r].items = cart /\ Len(cart) = 2
        /\ CartGet(cart, arg[r].productId) > arg[r].quantity
        /\ cart[1].productId = arg[r].productId


\* a JSON number held as v is a positive integer
PositiveInteger(v) == v > 0 /\ v % Unit = 0

\* C15: in every reachable state every cart line's reserved quantity is a
\* positive integer; addToCart refuses every quantity that is not one.
C15_PositiveIntegerLines ==
    \A i \in 1..Len(cart) : PositiveInteger(cart[i].quantity)


PrepareOk(r) == pc[r] = "done" /\ resp[r].op = "prepare" /\ resp[r].status = 200

\* request r is a prepareCheckout and takes a step
PrepareStep(r) ==
    /\ pc'[r] # pc[r]
    /\ pc'[r] = "prep_loaded" \/ (pc'[r] = "done" /\ resp'[r].op = "prepare")

\* C16: prepareCheckout performs no mutation of stock or cart. No step of a
\* prepareCheckout call, cached or not, failed or not, changes the cart or the
\* stock file, so after any number of calls both are what they were.
C16_PrepareNoMutation ==
    [][\A r \in Req : PrepareStep(r) => (cart' = cart /\ file' = file)]_vars

\* two prepareCheckout calls answered an order for the cart that is still there
C16_Witness ==
    /\ cart # <<>>
    /\ \E r1, r2 \in Req :
          /\ r1 # r2 /\ PrepareOk(r1) /\ PrepareOk(r2)
          /\ Len(resp[r1].items) = Len(cart) /\ Len(resp[r2].items) = Len(cart)

\* the cart lines an order was computed from
Lines(items) ==
    [i \in 1..Len(items) |-> [productId |-> items[i].productId,
                              quantity |-> items[i].quantity]]

C18_OrderIdUnique ==
    \A r1, r2 \in Req :
        (r1 # r2 /\ PrepareOk(r1) /\ PrepareOk(r2))
        => resp[r1].orderId # resp[r2].orderId

\* C19: prepareCheckout returns one line per cart line, in order, with the
\* catalog price of the product as unit price and lineTotal = unitPrice x
\* quantity, and total = the sum of the line totals (0 for an empty cart).
C19_OrderTotals ==
    [][\A r \in Req :
          (pc[r] # "done" /\ PrepareOk(r)')
          => LET items == resp'[r].items
             IN /\ Len(items) = Len(cart)
                /\ \A i \in 1..Len(cart) :
                      /\ items[i].productId = cart[i].productId
                      /\ items[i].quantity = cart[i].quantity
                      /\ items[i].price = product_price(cart[i].productId)
                      /\ items[i].amount = items[i].price * items[i].quantity
                /\ resp'[r].total = Sum([i \in 1..Len(items) |-> items[i].amount])
                /\ cart = <<>> => resp'[r].total = 0]_vars

\* an order of two lines, one of them of more than one unit, with its total
C19_Witness ==
    \E r \in Req :
        /\ PrepareOk(r) /\ Len(resp[r].items) = 2
        /\ \E i \in 1..2 : resp[r].items[i].quantity > Unit
        /\ resp[r].total = resp[r].items[1].amount + resp[r].items[2].amount
        /\ resp[r].total > 0


ClearDone(r) == pc[r] = "done" /\ resp[r].op = "clear"

\* C20: clearCart empties the cart unconditionally from any cart state, always
\* succeeds, changes no stock, and is idempotent. Whatever the cart holds (lines
\* or nothing, other handlers suspended or not) a clearCart request can be
\* served, answers ok, leaves the cart empty and the stock file as it was.
C20_ClearCart ==
    [][\A r \in Req :
          /\ CanStart(r) => ENABLED clearCart(r)
          /\ (pc[r] = "idle" /\ ClearDone(r)')
             => /\ cart' = <<>>
                /\ resp'[r].status = 200
                /\ file' = file]_vars

\* a cart with a line was cleared and then cleared again
C20_Witness ==
    /\ cart = <<>>
    /\ \E r0, r1, r2 \in Req :
          /\ r0 < r1 /\ r1 < r2
          /\ AddOk(r0) /\ ClearDone(r1) /\ ClearDone(r2)

\* ------------------------------------------------------------ the VMC server

Vending == vendingState.status = "vending"

\* C21: at most one dispense cycle is active at any time. Whatever vend requests
\* arrive over WebSocket and over HTTP, the server never has the completion
\* timers of two cycles outstanding, and while it stays in state vending the
\* in-flight item list is not overwritten.
C21_OneCycle ==
    /\ [](timers.timeout <= 1 /\ (timers.timeout = 1 <=> Vending))
    /\ [][(Vending /\ Vending')
            => vendingState'.currentItems = vendingState.currentItems]_vars

\* a cycle of three units is running and a later request for other items was
\* answered busy
C21_Witness ==
    /\ Vending /\ vendingState.currentItems = <<2, 2, 1>>
    /\ vmcReply.type = "busy"
    /\ timers.ticks > 0

\* the running cycle as the server holds it: state and outstanding timers
Cycle == <<vendingState, timers, vmcLog>>

CycleOrdered(log) ==
    /\ log[1].type = "accept"
    /\ \A i \in 2..Len(log) :
          \/ log[i].type = "tick" /\ log[i].elapsedTime > log[i - 1].elapsedTime
          \/ log[i].type = "complete" /\ i = Len(log)

\* C23: broadcast ordering per cycle. The broadcasts of a cycle are exactly one
\* accept event, then zero or more tick events of strictly increasing elapsed
\* time, then exactly one complete event: the cycle is running exactly as long
\* as its complete event is outstanding, every broadcast extends the sequence of
\* the running cycle by one event, and nothing is broadcast for a cycle after
\* its complete event (the next broadcast is the accept of the next cycle).
C23_BroadcastOrder ==
    /\ [](/\ vmcLog # <<>> => CycleOrdered(vmcLog)
          /\ Vending <=> (vmcLog # <<>> /\ vmcLog[Len(vmcLog)].type # "complete"))
    /\ [][vmcLog' # vmcLog
            => IF Vending
               THEN /\ Len(vmcLog') = Len(vmcLog) + 1
                    /\ SubSeq(vmcLog', 1, Len(vmcLog)) = vmcLog
               ELSE /\ Len(vmcLog') = 1
                    /\ Vending']_vars

\* a cycle of three units was accepted, reported progress twice or more and
\* completed
C23_Witness ==
    /\ ~Vending
    /\ Len(vmcLog) >= 4
    /\ vmcLog[1] = [type |-> "accept", items |-> <<2, 2, 1>>, elapsedTime |-> 0]
    /\ vmcLog[2].type = "tick" /\ vmcLog[3].type = "tick"
    /\ vmcLog[Len(vmcLog)].type = "complete"

\* C24: every accepted dispense cycle eventually completes. A cycle that is
\* running ends (the completion timer fires once the dispense duration has
\* elapsed), and the step that ends it returns the server to idle with items and
\* start time cleared and broadcasts a complete event that carries the item list
\* that was accepted, in the same order, at elapsed time vendingDelay.
C24_CycleCompletes ==
    /\ Vending ~> ~Vending
    /\ [][(Vending /\ ~Vending')
            => /\ vendingState'.status = "idle"
               /\ vendingState'.currentItems = <<>>
               /\ ~vendingState'.startTime
               /\ vmcLog'[Len(vmcLog')] = [type |-> "complete",
                                           items |-> vmcLog[1].items,
                                           elapsedTime |-> vendingDelay]]_vars

\* the cycle accepted with <<2, 2, 1>> has ended with a complete event carrying
\* <<2, 2, 1>>, and the server is idle again
C24_Witness ==
    /\ vendingState = Idle
    /\ vmcLog # <<>>
    /\ vmcLog[1].type = "accept" /\ vmcLog[1].items = <<2, 2, 1>>
    /\ vmcLog[Len(vmcLog)].type = "complete"
    /\ vmcLog[Len(vmcLog)].items = <<2, 2, 1>>

\* a dispense list: an array with at least one element
DispenseList(body) == body.array /\ body.items # <<>>

\* C25: a vend request is accepted only if its items are a non-empty sequence
\* and the server is idle. Every step that starts a cycle is the handling of a
\* request with a dispense list, taken in state idle, and snapshots that list; a
\* request whose items are missing, not a list or empty is rejected: the state
\* and the timers stay as they were and nothing is broadcast.
C25_AcceptOnlyValidWhenIdle ==
    [][/\ (vendingState'.status = "vending" /\ vendingState' # vendingState)
            => /\ ~Vending
               /\ \E body \in VendBodies :
                     /\ DispenseList(body)
                     /\ WsVend(body) \/ HttpVend(body)
                     /\ vendingState'.currentItems = body.items
       /\ \A body \in VendBodies :
             (~DispenseList(body) /\ (WsVend(body) \/ HttpVend(body)))
             => /\ vmcReply'.type = "invalid"
                /\ Cycle' = Cycle]_vars

\* a request without a dispense list was refused by the idle server: no cycle,
\* no timer, no broadcast
C25_Witness ==
    /\ vmcReply.type = "invalid"
    /\ vendingState = Idle
    /\ timers = NoTimers
    /\ vmcLog = <<>>

\* C26: timers do not accumulate. In every reachable state the server has at
\* most one progress interval and at most one completion timer outstanding,
\* exactly one of each while vending and none while idle, and the backend link
\* has at most one reconnect timer outstanding.
C26_TimersDoNotAccumulate ==
    /\ timers.interval = (IF Vending THEN 1 ELSE 0)
    /\ timers.timeout = (IF Vending THEN 1 ELSE 0)
    /\ vendingState.statusInterval = Vending
    /\ vendingState.timeout = Vending
    /\ reconnectTimers <= 1
    /\ reconnectTimers = 1 <=> reconnectTimeout = "pending"

\* a cycle started by a command of the backend is running with its two timers,
\* the link has closed since and one reconnect timer is pending
C26_Witness ==
    /\ Vending /\ timers.interval = 1 /\ timers.timeout = 1 /\ timers.ticks > 0
    /\ accepted # {}
    /\ vmcClient = 0
    /\ reconnectTimers = 1

\* ------------------------------------------------------------ the backend link

\* no WebSocket of the link is open or on its way
LinkDown == \A s \in Sock : socks[s].state = "none"

\* C27: if the link drops or the initial connection fails, the link keeps
\* retrying on its own, also after failed reconnect attempts, so that it comes
\* back without any send being issued. On runs without sends this needs a
\* reconnect timer to be pending whenever no socket is open or connecting:
\* with neither, nothing is left that would ever call connectToVMC.
C27_KeepsRetrying == LinkDown => reconnectTimeout = "pending"

\* C28: sendToVMC delivers the command and returns true if the link is open;
\* while the link is not open it returns false and transmits nothing, and the
\* link does not replay the command when the connection is re-established. Every
\* call (the one of confirmCheckout and the one of its retry) returns whether
\* the link was open, puts exactly its command on the wire of the current socket
\* when it was and leaves the wire alone when it was not; on every other step
\* (a socket opening among them) no command appears on the wire.
C28_SendIffOpen ==
    [][\A r \in Req :
          IF sends'[r] # sends[r]
          THEN /\ sends'[r][Len(sends'[r])] = IsOpen(Link)
               /\ IF IsOpen(Link)
                  THEN /\ Len(wire') = Len(wire) + 1
                       /\ SubSeq(wire', 1, Len(wire)) = wire
                       /\ wire'[Len(wire')].req = r
                       /\ wire'[Len(wire')].sock = vmcClient
                  ELSE wire' = wire
          ELSE \A i \in 1..Len(wire') :
                  wire'[i].req = r => \E j \in 1..Len(wire) : wire[j] = wire'[i]]_vars

\* both sends of a checkout found the link down; the link is open again and the
\* command has neither reached the VMC server nor is it on the wire
C28_Witness ==
    \E r \in Req :
        /\ sends[r] = <<FALSE, FALSE>>
        /\ IsOpen(Link)
        /\ r \notin accepted \cup busy
        /\ \A i \in 1..Len(wire) : wire[i].req # r

\* the sockets of the link that are connected to the VMC server
OpenSocks == {s \in Sock : socks[s].state = "open"}

\* C29: the handler registered with the link (app.ts registers one at startup
\* and never withdraws it) is invoked for every broadcast received from the VMC
\* server. Whenever the server broadcasts while the backend is connected, a
\* connected socket of the link passes the message to the handler.
C29_HandlerGetsEveryBroadcast ==
    [][(vmcLog' # vmcLog /\ OpenSocks # {})
         => \E s \in OpenSocks : socks[s].onMessage]_vars

\* ------------------------------------------------------------ the stock file

\* C30: the persisted stock count of every product is a non-negative integer in
\* every reachable state, under any interleaving of addToCart, clearCart and
\* confirmCheckout.
C30_StockNonNegativeInteger ==
    \A p \in PIDs : file[p] >= 0 /\ file[p] % Unit = 0

\* ------------------------------------------------------------ confirmCheckout

\* C31: confirmCheckout persists the updated stock before it sends the vend
\* command and before it acknowledges the caller; if persisting fails, no vend
\* command is sent, the cart is not cleared and the caller gets an error. The
\* first sendToVMC of a confirm and its 200 answer happen in a run of the handler
\* that starts after fs.writeFile has stored the deducted stock; a confirm whose
\* write is rejected answers 500 and leaves file, cart, wire and timers alone.
C31_PersistBeforeSend ==
    [][\A r \in Req :
          /\ (pc[r] = "conf_write" /\ pc'[r] = "conf_written") => file' = data[r]
          /\ (sends[r] = <<>> /\ sends'[r] # <<>>) => pc[r] = "conf_written"
          /\ (pc[r] # "done" /\ ConfirmOk(r)') => pc[r] = "conf_written"
          /\ (pc[r] = "conf_write" /\ pc'[r] = "done")
             => /\ resp'[r].status = 500
                /\ <<file, cart, sends, wire, retry>>' = <<file, cart, sends, wire, retry>>]_vars

\* the write of a confirm was rejected while the link was open: the cart still
\* holds its line, the stock file is as it was and nothing was sent
C31_Witness ==
    \E r \in Req :
        /\ pc[r] = "done" /\ resp[r].op = "confirm" /\ resp[r].status = 500
        /\ resp[r].message = "writeFile"
        /\ cart # <<>>
        /\ \A p \in PIDs : file[p] = InitialStock
        /\ IsOpen(Link) /\ sends[r] = <<>> /\ wire = <<>>

\* C32: for every successful confirmCheckout, whatever addToCart and clearCart
\* requests run while it is suspended on file I/O, the units it reports as
\* checked out (and submits to the VMC server) are the units it deducted from
\* stock, product by product.
C32_DispatchedEqualsDeducted ==
    \A r \in Req :
        ConfirmOk(r)
        => \A p \in PIDs :
              CartGet(resp[r].checkedOut, p) = CartGet(deducted[r], p)

\* C33: no stock update is lost. Under any interleaving of confirmCheckout
\* requests (with addToCart requests in between) every write of the stock file
\* carries the deductions written before it, so that the persisted stock is the
\* initial stock minus what was checked out; in particular the stock of a
\* product never increases.
C33_NoLostStockUpdate ==
    [][\A p \in PIDs : file'[p] <= file[p]]_vars

\* C34: every vend command confirmCheckout sends carries a non-empty item list.
\* A confirmCheckout on an empty cart (emptied by a concurrent confirm or
\* clearCart, or never filled) puts no command on the wire, queues none for the
\* retry and does not report a dispatch.
C34_NoEmptyVendCommand ==
    /\ \A i \in 1..Len(wire) : wire[i].items # <<>>
    /\ \A m \in retry : m.items # <<>>
    /\ \A r \in Req : (ConfirmOk(r) /\ resp[r].checkedOut = <<>>) => ~resp[r].sent

\* how many of the sendToVMC calls made for request r transmitted its command
Transmissions(r) == Cardinality({i \in 1..Len(sends[r]) : sends[r][i]})

\* C35: the vend command of one confirmCheckout is transmitted at most once.
\* The delayed retry is scheduled only when the first sendToVMC reported
\* non-delivery and it is the only retry: a confirm makes at most two sendToVMC
\* calls, the second only after the first returned false, at most one of them
\* transmits, and the VMC server never handles a command of a confirm whose
\* command it has handled before.
C35_TransmittedAtMostOnce ==
    /\ [](\A r \in Req :
            /\ Len(sends[r]) <= 2
            /\ Len(sends[r]) = 2 => ~sends[r][1]
            /\ (\E m \in retry : m.req = r) => sends[r] = <<FALSE>>
            /\ Transmissions(r) <= 1
            /\ Cardinality({i \in 1..Len(wire) : wire[i].req = r}) <= 1)
    /\ [][\A r \in Req :
            (r \in (accepted' \cup busy') \ (accepted \cup busy))
            => /\ wire # <<>> /\ Head(wire).req = r
               /\ \A i \in 1..Len(wire') : wire'[i].req # r]_vars

\* the first send of a confirm found the link down, its retry was transmitted
\* and the VMC server accepted the command
C35_Witness ==
    \E r \in Req :
        /\ ConfirmOk(r) /\ ~resp[r].sent
        /\ sends[r] = <<FALSE, TRUE>>
        /\ r \in accepted

\* the WebSockets of the link that are open or being opened
LiveSocks == {s \in Sock : socks[s].state # "none"}

\* C36: the backend link holds at most one connection to the VMC server at any
\* time, open or being opened: a connectToVMC call made while a connection
\* attempt is in progress creates no second socket, and the reference vmcClient
\* is null only when no socket is left (a superseded socket that closes does not
\* reset the reference to a newer one).
C36_OneConnection ==
    /\ Cardinality(LiveSocks) <= 1
    /\ LiveSocks # {} => vmcClient \in LiveSocks

\* C37: the message handler the backend registers at startup keeps receiving
\* the broadcasts of the VMC server after every reconnection, whether the new
\* connection was opened by the reconnect timer or by a sendToVMC /
\* confirmCheckout call made while disconnected: whenever the link is open, the
\* socket it refers to passes what it receives to that handler.
C37_HandlerSurvivesReconnect ==
    IsOpen(Link) => socks[vmcClient].onMessage

\* ------------------------------------------------------------ the browser client

\* C38: after disconnect() of the browser client no reconnection attempt is
\* scheduled or made and no listener is invoked again, until connect() is
\* called explicitly. As long as connect() has not been called since the last
\* disconnect(), no reconnect timer is outstanding and no listener has been
\* called.
C38_DisconnectIsFinal ==
    stopped => (wsTimers = 0 /\ invoked = {})

\* C39: the browser client makes at most 5 consecutive automatic reconnection
\* attempts without an intervening successful open, with at most one reconnect
\* timer pending at any time, and a successful open resets the attempt counter
\* to 0.
C39_BoundedReconnect ==
    /\ [](/\ sinceOpen <= maxReconnectAttempts
          /\ reconnectAttempts <= maxReconnectAttempts
          /\ wsTimers <= 1
          /\ wsTimers = 1 <=> wsReconnectTimeout # 0)
    /\ [][\A s \in WSock :
            (wsocks[s] = "connecting" /\ wsocks'[s] = "open")
            => reconnectAttempts' = 0]_vars

\* five reconnection attempts in a row have failed since the last open: the
\* client has given up, no timer is pending and no socket is left
C39_Witness ==
    /\ sinceOpen = maxReconnectAttempts
    /\ reconnectAttempts = maxReconnectAttempts
    /\ wsTimers = 0
    /\ \A s \in WSock : wsocks[s] = "none"
    /\ ~stopped

\* ------------------------------------------------------------ the product cache

\* a confirmCheckout is between its write of the stock file and its response
ConfirmWriting == \E r \in Req : pc[r] = "conf_written"

\* C40: once a successful confirmCheckout has been acknowledged, every later
\* loadProducts call returns data read from the file after that confirm's write,
\* also when a loadProducts call was in flight while the confirm wrote the file
\* and invalidated the cache. With a confirm acknowledged and none writing, a
\* cache that loadProducts would serve holds the stock file as it is.
C40_CacheNotStaleAfterConfirm ==
    ((\E r \in Req : ConfirmOk(r)) /\ ~ConfirmWriting /\ CacheFresh)
    => cachedProducts = file

====
